---- MODULE Spec2Model ----
(***************************************************************************)
(* Conversation state and message dispatch of the Telegram agent bot:     *)
(* TelegramMCPBot._procress_message (src/bot/telegram.py) on top of        *)
(* OpenAIAgent.run (src/bot/agents.py), inside the life of the process:    *)
(* main (src/app.py) starts the bot, serves, and releases everything.      *)
(*                                                                         *)
(* One handler runs per inbound update.  A handler is a coroutine: it runs *)
(* without interruption up to its next await (the agent call, an outbound  *)
(* send), so each action below is one such uninterrupted segment.          *)
(* Python values are tagged with their type; strings are sequences of      *)
(* one-character strings.                                                  *)
(***************************************************************************)
EXTENDS Integers, Sequences, FiniteSets, TLC

\* ------------------------------------------------------------------ bounds
\* The regular course of an update: a text message that mentions the bot on
\* the first chat, received while no other handler is suspended, answered by
\* the agent with a short reply that the transport delivers.  Everything
\* else (another chat, another shape of update, an overlap with a suspended
\* handler, a reply at the formatting limit, an exception) is a departure.
\* A run of up to ShortRun updates departs up to MaxIrregular times from the
\* regular course; a longer run, of up to MaxEvents updates, up to
\* LongIrregular times.
MaxEvents == 7
ShortRun == 2
MaxIrregular == 2
LongIrregular == 1
\* Number of handlers that may be suspended at an await at the same time.
MaxInFlight == 2
\* Number of tool servers in the configuration.
NumServers == 2
\* The process is stopped after at most StopRun updates, at a moment when no
\* handler is suspended, and no update arrives while it stops.
StopRun == 1

Within(n, k) ==
    /\ n <= MaxEvents
    /\ k <= MaxIrregular
    /\ n <= ShortRun \/ k <= LongIrregular

Chats == {1, 2}
RegularChat == CHOOSE c \in Chats : \A d \in Chats : c <= d

\* ---------------------------------------------------------- Python values
PyNone == [type |-> "NoneType", val |-> <<>>]
PyStr(s) == [type |-> "str", val |-> s]
PyList(l) == [type |-> "list", val |-> l]

\* s[-n:] of a Python list
LastN(s, n) == IF Len(s) <= n THEN s ELSE SubSeq(s, Len(s) - n + 1, Len(s))

IsPrefix(s, t) == Len(s) <= Len(t) /\ SubSeq(t, 1, Len(s)) = s

\* m occurs in s as a contiguous substring
Contains(s, m) ==
    \E i \in 0..(Len(s) - Len(m)) : SubSeq(s, i + 1, i + Len(m)) = m

Digits == <<"1", "2", "3", "4", "5", "6", "7", "8", "9">>

\* ------------------------------------------------------- program constants
\* self.conversations[chat_id]["messages"][-5:]
HistoryWindow == 5
\* self.messages[-5:] in OpenAIAgent.run
AgentWindow == 5
\* if len(agent_resp) < 200
PlainLimit == 200

ApologyPrefix ==
    <<"I", "'", "m", " ", "s", "o", "r", "r", "y", ",", " ", "I", " ", "e",
      "n", "c", "o", "u", "n", "t", "e", "r", "e", "d", " ", "a", "n", " ",
      "e", "r", "r", "o", "r", ":", " ">>
BlockquoteOpen ==
    <<"<", "b", "l", "o", "c", "k", "q", "u", "o", "t", "e", " ", "e", "x",
      "p", "a", "n", "d", "a", "b", "l", "e", ">">>
BlockquoteClose ==
    <<"<", "/", "b", "l", "o", "c", "k", "q", "u", "o", "t", "e", ">">>

\* ------------------------------------------------------------------ inputs
\* Text of the message of update e.
UserText(e) == <<"q", Digits[e]>>

\* A reply of n characters to update e.
ReplyText(e, n) ==
    [i \in 1..n |-> IF i = 1 THEN "a" ELSE IF i = 2 THEN Digits[e] ELSE "x"]

ShortLen == 8
ReplyLens == {ShortLen, PlainLimit - 1, PlainLimit}

\* What a completed Runner.run hands back: the final output and the number
\* of items the run generated (tool calls, then the output message).
RunResults(e) ==
    { [final_output |-> ReplyText(e, n), new_items |-> IF n = PlainLimit - 1 THEN 2 ELSE 1] :
        n \in ReplyLens }

RunError == <<"t", "i", "m", "e", "o", "u", "t">>
SendError == <<"n", "e", "t", "w", "o", "r", "k">>

\* The shapes of update the transport can produce for message e on chat c.
\* message: update.message is not None; effective_chat: update.effective_chat
\* is not None; reply, command, mention: what the filters look at.
Update(e, c, shape) ==
    [ message_id |-> e,
      chat_id |-> c,
      shape |-> shape,
      message |-> shape # "edited_reply",
      effective_chat |-> shape # "no_chat",
      text |-> IF shape = "photo_reply" THEN PyNone ELSE PyStr(UserText(e)),
      reply |-> shape \in {"photo_reply", "edited_reply", "command_reply"},
      command |-> shape = "command_reply",
      mention |-> shape \in {"text_mention", "no_chat"} ]

Shapes == {"text_mention", "photo_reply", "edited_reply", "no_chat", "command_reply"}

Updates(e) == { Update(e, c, s) : c \in Chats, s \in Shapes }

NoUpdate == Update(1, RegularChat, "command_reply")

\* ------------------------------------------------------------------- state
VARIABLES
    conversations,  \* TelegramMCPBot.conversations: chat_id -> [messages: list of turns]
    agentMessages,  \* OpenAIAgent.messages, the rolling buffer of the agent wrapper
    handlers,       \* one coroutine of _procress_message per update
    sent,           \* the calls made to the transport, in call order
    arrived,        \* number of updates received so far
    writers,        \* history: which update's handler appended each stored turn
    irregular,      \* history: departures from the regular course so far
    main,           \* the coroutine of main: where it is suspended, what it has called
    mcp_servers     \* OpenAIAgent.mcp_servers: per server, the calls made on it

vars == <<conversations, agentMessages, handlers, sent, arrived, writers, irregular,
          main, mcp_servers>>

Events == 1..MaxEvents

\* The configured tool servers, in the order of the list mcp_servers.
Servers == 1..NumServers

Idle ==
    [ pc |-> "idle", update |-> NoUpdate, messages |-> <<>>, input |-> <<>>,
      agent_resp |-> PyNone, error |-> <<>>, hist0 |-> <<>>, trace |-> <<>> ]

InFlight == { e \in 1..arrived : handlers[e].pc # "done" }

\* What an irregular update costs.
UpdateCost(u, overlap) ==
    (IF u.shape = "text_mention" THEN 0 ELSE 1)
    + (IF u.chat_id = RegularChat THEN 0 ELSE 1)
    + (IF overlap THEN 1 ELSE 0)

\* The updater fetches updates from start_polling to the stop of the process.
Polling == main.polling /\ main.pc \in {"connect", "serving"}

\* The updates that can arrive in the current state.
Receivable ==
    IF Polling /\ arrived < MaxEvents /\ Cardinality(InFlight) < MaxInFlight
    THEN LET overlap == InFlight # {}
         IN { u \in Updates(arrived + 1) :
                Within(arrived + 1, irregular + UpdateCost(u, overlap)) }
    ELSE {}

ResultCost(res) == IF Len(res.final_output) = ShortLen THEN 0 ELSE 1

\* ------------------------------------------------ src/bot/telegram.py
\* MessageHandler(filters.REPLY & ~filters.COMMAND, ...) and
\* MessageHandler(filters.Mention(self.bot_username), ...)
Delivered(u) == (u.reply /\ ~u.command) \/ u.mention

\* if update.message is None or update.effective_chat is None: return
Malformed(u) == ~u.message \/ ~u.effective_chat

\* if chat_id not in self.conversations: self.conversations[chat_id] = {"messages": []}
GetOrCreate(conv, c) ==
    IF c \in DOMAIN conv THEN conv ELSE conv @@ (c :> [messages |-> <<>>])

UserTurn(u) == [role |-> "user", content |-> u.text]

AssistantTurn(agent_resp) == [role |-> "assistant", content |-> agent_resp]

AppendTurnCapped(conv, c, turn) ==
    [conv EXCEPT ![c].messages = LastN(Append(@, turn), HistoryWindow)]

\* self.conversations[chat_id]["messages"].append(turn)
AppendTurn(conv, c, turn) ==
    [conv EXCEPT ![c].messages = Append(@, turn)]

RecentOneMore(conv, c) == LastN(conv[c].messages, HistoryWindow + 1)

\* messages.extend(self.conversations[chat_id]["messages"][-5:])
Recent(conv, c) == LastN(conv[c].messages, HistoryWindow)

ReplyCallOffByOne(u, agent_resp) ==
    IF Len(agent_resp.val) <= PlainLimit
    THEN [ by |-> u.message_id, chat_id |-> u.chat_id, reply_to |-> u.message_id,
           text |-> agent_resp.val, parse_mode |-> "none", status |-> "pending" ]
    ELSE [ by |-> u.message_id, chat_id |-> u.chat_id, reply_to |-> u.message_id,
           text |-> BlockquoteOpen \o agent_resp.val \o BlockquoteClose,
           parse_mode |-> "HTML", status |-> "pending" ]

\* The outbound call for a successful reply: reply_text(text=agent_resp,
\* do_quote=True) under the limit, otherwise send_message with the expandable
\* blockquote, HTML parse mode and reply_parameters.
ReplyCall(u, agent_resp) ==
    IF Len(agent_resp.val) < PlainLimit
    THEN [ by |-> u.message_id, chat_id |-> u.chat_id, reply_to |-> u.message_id,
           text |-> agent_resp.val, parse_mode |-> "none", status |-> "pending" ]
    ELSE [ by |-> u.message_id, chat_id |-> u.chat_id, reply_to |-> u.message_id,
           text |-> BlockquoteOpen \o agent_resp.val \o BlockquoteClose,
           parse_mode |-> "HTML", status |-> "pending" ]

ApologyCallGeneric(u, error) ==
    [ by |-> u.message_id, chat_id |-> u.chat_id, reply_to |-> 0,
      text |-> ApologyPrefix, parse_mode |-> "none", status |-> "pending" ]

\* error_message = f"I'm sorry, I encountered an error: {str(e)}";
\* update.message.reply_text(error_message).  reply_to 0: quoting is left to
\* the transport's default.
ApologyCall(u, error) ==
    [ by |-> u.message_id, chat_id |-> u.chat_id, reply_to |-> 0,
      text |-> ApologyPrefix \o error, parse_mode |-> "none", status |-> "pending" ]

\* ------------------------------------------------ src/bot/agents.py
\* self.messages.append({"role": "user", "content": message});
\* Runner.run(self.main_agent, input=self.messages)
AgentInput(buffer, message) ==
    Append(buffer, [role |-> "user", content |-> message])

\* The items a completed run generated: tool items, then the output message.
NewItems(res) ==
    [ i \in 1..res.new_items |->
        IF i = res.new_items
        THEN [role |-> "assistant", content |-> PyStr(res.final_output)]
        ELSE [role |-> "tool", content |-> PyStr(<<>>)] ]

\* self.messages = result.to_input_list(); self.messages = self.messages[-5:]
AgentBuffer(input, res) == LastN(input \o NewItems(res), AgentWindow)

\* return str(result.final_output)
AgentOutput(res) == PyStr(res.final_output)

\* ----------------------------------------------------------------- actions
Init ==
    /\ conversations = <<>>
    /\ agentMessages = <<>>
    /\ handlers = [e \in Events |-> Idle]
    /\ sent = <<>>
    /\ arrived = 0
    /\ writers = <<>>
    /\ irregular = 0
    /\ main = [pc |-> "constructed", server |-> 0, polling |-> FALSE,
               registered |-> FALSE, trace |-> <<>>]
    /\ mcp_servers = [s \in Servers |-> [connected |-> FALSE, released |-> FALSE]]

\* Handler e appended a turn to the history of chat c.
Wrote(w, c, e) ==
    IF c \in DOMAIN w THEN [w EXCEPT ![c] = Append(@, e)] ELSE w @@ (c :> <<e>>)

\* The status of the pending call of handler e becomes st.
Complete(log, e, st) ==
    [ i \in 1..Len(log) |->
        IF log[i].by = e /\ log[i].status = "pending"
        THEN [log[i] EXCEPT !.status = st] ELSE log[i] ]

Receive(u) ==
    /\ arrived' = u.message_id
    /\ irregular' = irregular + UpdateCost(u, InFlight # {})

\* No registered message handler matches the update.
Ignore(u) ==
    /\ main.registered
    /\ ~Delivered(u)
    /\ Receive(u)
    /\ handlers' = [handlers EXCEPT ![u.message_id] =
            [Idle EXCEPT !.pc = "done", !.update = u, !.trace = <<"not_delivered">>]]
    /\ UNCHANGED <<conversations, agentMessages, sent, writers, main, mcp_servers>>

\* _procress_message returns at its first check.
Reject(u) ==
    /\ main.registered
    /\ Delivered(u)
    /\ Malformed(u)
    /\ Receive(u)
    /\ handlers' = [handlers EXCEPT ![u.message_id] =
            [Idle EXCEPT !.pc = "done", !.update = u, !.trace = <<"rejected">>]]
    /\ UNCHANGED <<conversations, agentMessages, sent, writers, main, mcp_servers>>

\* The window is read before the user turn is appended.
AcceptReadsBeforeAppend(u) ==
    /\ main.registered
    /\ Delivered(u)
    /\ ~Malformed(u)
    /\ Receive(u)
    /\ LET c == u.chat_id
           e == u.message_id
           created == GetOrCreate(conversations, c)
           stored == AppendTurn(created, c, UserTurn(u))
           messages == Recent(created, c)
           input == AgentInput(agentMessages, PyList(messages))
       IN /\ conversations' = stored
          /\ writers' = Wrote(writers, c, e)
          /\ agentMessages' = input
          /\ handlers' = [handlers EXCEPT ![e] =
                [ pc |-> "run", update |-> u, messages |-> messages, input |-> input,
                  agent_resp |-> PyNone, error |-> <<>>,
                  hist0 |-> IF c \in DOMAIN conversations
                            THEN conversations[c].messages ELSE <<>>,
                  trace |-> <<"append_user", "recent", "agent.run">> ]]
    /\ UNCHANGED <<sent, main, mcp_servers>>

\* _procress_message up to `await self.agent.run(messages)`, and
\* OpenAIAgent.run up to `await Runner.run(...)`.
Accept(u) ==
    /\ main.registered
    /\ Delivered(u)
    /\ ~Malformed(u)
    /\ Receive(u)
    /\ LET c == u.chat_id
           e == u.message_id
           created == GetOrCreate(conversations, c)
           stored == AppendTurn(created, c, UserTurn(u))
           messages == Recent(stored, c)
           input == AgentInput(agentMessages, PyList(messages))
       IN /\ conversations' = stored
          /\ writers' = Wrote(writers, c, e)
          /\ agentMessages' = input
          /\ handlers' = [handlers EXCEPT ![e] =
                [ pc |-> "run", update |-> u, messages |-> messages, input |-> input,
                  agent_resp |-> PyNone, error |-> <<>>,
                  hist0 |-> IF c \in DOMAIN conversations
                            THEN conversations[c].messages ELSE <<>>,
                  trace |-> <<"append_user", "recent", "agent.run">> ]]
    /\ UNCHANGED <<sent, main, mcp_servers>>

RunReturnsUnrecorded(e, res) ==
    /\ handlers[e].pc = "run"
    /\ Within(arrived, irregular + ResultCost(res))
    /\ irregular' = irregular + ResultCost(res)
    /\ LET h == handlers[e]
           agent_resp == AgentOutput(res)
       IN /\ agentMessages' = AgentBuffer(h.input, res)
          /\ sent' = Append(sent, ReplyCall(h.update, agent_resp))
          /\ handlers' = [handlers EXCEPT ![e] =
                [h EXCEPT !.pc = "send", !.agent_resp = agent_resp,
                          !.trace = @ \o <<"run_returned", "send_reply">>]]
    /\ UNCHANGED <<conversations, writers, arrived, main, mcp_servers>>

\* Runner.run completes: the rest of OpenAIAgent.run, then _procress_message
\* up to the await of the outbound reply.
\* The reply is stored once per item the run generated.
RunReturnsStoresEachItem(e, res) ==
    /\ handlers[e].pc = "run"
    /\ Within(arrived, irregular + ResultCost(res))
    /\ irregular' = irregular + ResultCost(res)
    /\ LET h == handlers[e]
           c == h.update.chat_id
           agent_resp == AgentOutput(res)
           once == AppendTurn(conversations, c, AssistantTurn(agent_resp))
       IN /\ agentMessages' = AgentBuffer(h.input, res)
          /\ conversations' = IF res.new_items > 1
                              THEN AppendTurn(once, c, AssistantTurn(agent_resp))
                              ELSE once
          /\ writers' = IF res.new_items > 1
                        THEN Wrote(Wrote(writers, c, e), c, e)
                        ELSE Wrote(writers, c, e)
          /\ sent' = Append(sent, ReplyCall(h.update, agent_resp))
          /\ handlers' = [handlers EXCEPT ![e] =
                [h EXCEPT !.pc = "send", !.agent_resp = agent_resp,
                          !.trace = @ \o <<"run_returned", "append_assistant", "send_reply">>]]
    /\ UNCHANGED <<arrived, main, mcp_servers>>

RunReturns(e, res) ==
    /\ handlers[e].pc = "run"
    /\ Within(arrived, irregular + ResultCost(res))
    /\ irregular' = irregular + ResultCost(res)
    /\ LET h == handlers[e]
           c == h.update.chat_id
           agent_resp == AgentOutput(res)
       IN /\ agentMessages' = AgentBuffer(h.input, res)
          /\ conversations' = AppendTurn(conversations, c, AssistantTurn(agent_resp))
          /\ writers' = Wrote(writers, c, e)
          /\ sent' = Append(sent, ReplyCall(h.update, agent_resp))
          /\ handlers' = [handlers EXCEPT ![e] =
                [h EXCEPT !.pc = "send", !.agent_resp = agent_resp,
                          !.trace = @ \o <<"run_returned", "append_assistant", "send_reply">>]]
    /\ UNCHANGED <<arrived, main, mcp_servers>>

RunRaisesRecorded(e) ==
    /\ handlers[e].pc = "run"
    /\ Within(arrived, irregular + 1)
    /\ irregular' = irregular + 1
    /\ LET h == handlers[e]
           c == h.update.chat_id
       IN /\ conversations' =
                AppendTurn(conversations, c, AssistantTurn(PyStr(ApologyPrefix \o RunError)))
          /\ writers' = Wrote(writers, c, e)
          /\ sent' = Append(sent, ApologyCall(h.update, RunError))
          /\ handlers' = [handlers EXCEPT ![e] =
                [h EXCEPT !.pc = "apology", !.error = RunError,
                          !.trace = @ \o <<"run_raised", "send_apology">>]]
    /\ UNCHANGED <<agentMessages, arrived, main, mcp_servers>>

RunRaisesRollback(e) ==
    /\ handlers[e].pc = "run"
    /\ Within(arrived, irregular + 1)
    /\ irregular' = irregular + 1
    /\ LET h == handlers[e]
           c == h.update.chat_id
       IN /\ conversations' =
                [conversations EXCEPT ![c].messages = SubSeq(@, 1, Len(@) - 1)]
          /\ writers' = [writers EXCEPT ![c] = SubSeq(@, 1, Len(@) - 1)]
          /\ sent' = Append(sent, ApologyCall(h.update, RunError))
          /\ handlers' = [handlers EXCEPT ![e] =
                [h EXCEPT !.pc = "apology", !.error = RunError,
                          !.trace = @ \o <<"run_raised", "send_apology">>]]
    /\ UNCHANGED <<agentMessages, arrived, main, mcp_servers>>

\* Runner.run raises: OpenAIAgent.run propagates it, _procress_message
\* catches it and runs up to the await of the apology.
RunRaises(e) ==
    /\ handlers[e].pc = "run"
    /\ Within(arrived, irregular + 1)
    /\ irregular' = irregular + 1
    /\ LET h == handlers[e]
       IN /\ sent' = Append(sent, ApologyCall(h.update, RunError))
          /\ handlers' = [handlers EXCEPT ![e] =
                [h EXCEPT !.pc = "apology", !.error = RunError,
                          !.trace = @ \o <<"run_raised", "send_apology">>]]
    /\ UNCHANGED <<conversations, agentMessages, arrived, writers, main, mcp_servers>>

\* The outbound reply is delivered: _procress_message returns.
\* Replies are delivered in the order of arrival of their updates.
SendReturnsInTurn(e) ==
    /\ handlers[e].pc = "send"
    /\ \A d \in InFlight : e <= d
    /\ sent' = Complete(sent, e, "delivered")
    /\ handlers' = [handlers EXCEPT ![e] =
            [@ EXCEPT !.pc = "done", !.trace = @ \o <<"reply_delivered">>]]
    /\ UNCHANGED <<conversations, agentMessages, arrived, writers, irregular, main, mcp_servers>>

SendReturns(e) ==
    /\ handlers[e].pc = "send"
    /\ sent' = Complete(sent, e, "delivered")
    /\ handlers' = [handlers EXCEPT ![e] =
            [@ EXCEPT !.pc = "done", !.trace = @ \o <<"reply_delivered">>]]
    /\ UNCHANGED <<conversations, agentMessages, arrived, writers, irregular, main, mcp_servers>>

\* The outbound reply raises: the except branch sends the apology.
\* The except branch takes the assistant turn back before it apologises.
SendRaisesRollback(e) ==
    /\ handlers[e].pc = "send"
    /\ Within(arrived, irregular + 1)
    /\ irregular' = irregular + 1
    /\ LET h == handlers[e]
           c == h.update.chat_id
       IN /\ conversations' =
                [conversations EXCEPT ![c].messages = SubSeq(@, 1, Len(@) - 1)]
          /\ writers' = [writers EXCEPT ![c] = SubSeq(@, 1, Len(@) - 1)]
          /\ sent' = Append(Complete(sent, e, "failed"), ApologyCall(h.update, SendError))
          /\ handlers' = [handlers EXCEPT ![e] =
                [h EXCEPT !.pc = "apology", !.error = SendError,
                          !.trace = @ \o <<"reply_raised", "send_apology">>]]
    /\ UNCHANGED <<agentMessages, arrived, main, mcp_servers>>

SendRaises(e) ==
    /\ handlers[e].pc = "send"
    /\ Within(arrived, irregular + 1)
    /\ irregular' = irregular + 1
    /\ LET h == handlers[e]
       IN /\ sent' = Append(Complete(sent, e, "failed"), ApologyCall(h.update, SendError))
          /\ handlers' = [handlers EXCEPT ![e] =
                [h EXCEPT !.pc = "apology", !.error = SendError,
                          !.trace = @ \o <<"reply_raised", "send_apology">>]]
    /\ UNCHANGED <<conversations, agentMessages, arrived, writers, main, mcp_servers>>

\* The apology is delivered: _procress_message returns.
ApologyReturns(e) ==
    /\ handlers[e].pc = "apology"
    /\ sent' = Complete(sent, e, "delivered")
    /\ handlers' = [handlers EXCEPT ![e] =
            [@ EXCEPT !.pc = "done", !.trace = @ \o <<"apology_delivered">>]]
    /\ UNCHANGED <<conversations, agentMessages, arrived, writers, irregular, main, mcp_servers>>

\* The apology raises inside the except branch: the exception leaves
\* _procress_message.
ApologyRaises(e) ==
    /\ handlers[e].pc = "apology"
    /\ Within(arrived, irregular + 1)
    /\ irregular' = irregular + 1
    /\ sent' = Complete(sent, e, "failed")
    /\ handlers' = [handlers EXCEPT ![e] =
            [@ EXCEPT !.pc = "done", !.trace = @ \o <<"apology_raised", "escaped">>]]
    /\ UNCHANGED <<conversations, agentMessages, arrived, writers, main, mcp_servers>>

\* ------------------------------------------------------------- src/app.py
\* main runs the bot, sleeps until it is interrupted, and releases the bot
\* and the agent in its finally block.  Each action is one segment of main,
\* with the methods it calls, between two awaits.  main.trace keeps the calls
\* made and the exceptions logged, in order.
Call(op, s) == [kind |-> "call", op |-> op, server |-> s]
Logged(op, s) == [kind |-> "logged", op |-> op, server |-> s]

StartupSteps == {"initialize", "start", "start_polling"}
ShutdownSteps == {"updater.stop", "application.stop", "application.shutdown"}

Calls(m, step) == [m EXCEPT !.pc = step, !.trace = @ \o <<Call(step, 0)>>]

\* TelegramMCPBot.run after initialize_agent: the three add_handler calls;
\* main then sleeps in its loop.
AddHandlers(m) ==
    [m EXCEPT !.pc = "serving", !.server = 0, !.registered = TRUE,
              !.trace = @ \o <<Call("add_handler", 0)>>]

\* OpenAIAgent.connect, `for mcp_server in self.mcp_servers`, from server s
\* on: up to the next `await mcp_server.connect()`, or out of the loop and
\* back in TelegramMCPBot.run.
ConnectFrom(m, s) ==
    IF s \in Servers
    THEN [m EXCEPT !.pc = "connect", !.server = s, !.trace = @ \o <<Call("connect", s)>>]
    ELSE AddHandlers(m)

\* OpenAIAgent.cleanup, from server s on; past the loop main returns.
CleanupFrom(m, s) ==
    IF s \in Servers
    THEN [m EXCEPT !.pc = "cleanup", !.server = s, !.trace = @ \o <<Call("cleanup", s)>>]
    ELSE [m EXCEPT !.pc = "exited", !.server = 0]

\* finally: await tg_bot.cleanup(), up to `await self.application.updater.stop()`
Finally(m) == Calls(m, "updater.stop")

\* finally: await openai_agent.cleanup(), after tg_bot.cleanup returned
AgentCleanup(m) == CleanupFrom([m EXCEPT !.trace = @ \o <<Call("agent.cleanup", 0)>>], 1)

\* main calls tg_bot.run(), which awaits application.initialize().
RunBot ==
    /\ main.pc = "constructed"
    /\ main' = Calls(main, "initialize")
    /\ UNCHANGED <<conversations, agentMessages, handlers, sent, arrived, writers,
                   irregular, mcp_servers>>

\* The handlers are added as soon as the updater polls, before the connect.
StartupReturnsHandlersFirst ==
    /\ main.pc \in StartupSteps
    /\ main' = CASE main.pc = "initialize" -> Calls(main, "start")
                 [] main.pc = "start" -> Calls(main, "start_polling")
                 [] main.pc = "start_polling" ->
                        ConnectFrom([main EXCEPT !.polling = TRUE, !.registered = TRUE,
                                        !.trace = @ \o <<Call("agent.connect", 0)>>], 1)
    /\ UNCHANGED <<conversations, agentMessages, handlers, sent, arrived, writers,
                   irregular, mcp_servers>>

\* A step of TelegramMCPBot.run returns: the next one is called.  After
\* start_polling the updater fetches updates, and run calls initialize_agent,
\* which calls OpenAIAgent.connect.
StartupReturns ==
    /\ main.pc \in StartupSteps
    /\ main' = CASE main.pc = "initialize" -> Calls(main, "start")
                 [] main.pc = "start" -> Calls(main, "start_polling")
                 [] main.pc = "start_polling" ->
                        ConnectFrom([main EXCEPT !.polling = TRUE,
                                        !.trace = @ \o <<Call("agent.connect", 0)>>], 1)
    /\ UNCHANGED <<conversations, agentMessages, handlers, sent, arrived, writers,
                   irregular, mcp_servers>>

\* A step of TelegramMCPBot.run raises: main logs it (except Exception) and
\* goes to its finally block.
StartupRaises ==
    /\ main.pc \in StartupSteps
    /\ Within(arrived, irregular + 1)
    /\ irregular' = irregular + 1
    /\ main' = Finally([main EXCEPT !.trace = @ \o <<Logged(main.pc, 0)>>])
    /\ UNCHANGED <<conversations, agentMessages, handlers, sent, arrived, writers,
                   mcp_servers>>

ConnectReturns ==
    /\ main.pc = "connect"
    /\ mcp_servers' = [mcp_servers EXCEPT ![main.server].connected = TRUE]
    /\ main' = ConnectFrom(main, main.server + 1)
    /\ UNCHANGED <<conversations, agentMessages, handlers, sent, arrived, writers,
                   irregular>>

\* The exception leaves connect and is caught in initialize_agent instead.
ConnectRaisesAborts ==
    /\ main.pc = "connect"
    /\ Within(arrived, irregular + 1)
    /\ irregular' = irregular + 1
    /\ main' = AddHandlers([main EXCEPT !.trace = @ \o <<Logged("agent.connect", 0)>>])
    /\ UNCHANGED <<conversations, agentMessages, handlers, sent, arrived, writers,
                   mcp_servers>>

\* except Exception as e: logging.error(...) inside the loop of connect
ConnectRaises ==
    /\ main.pc = "connect"
    /\ Within(arrived, irregular + 1)
    /\ irregular' = irregular + 1
    /\ main' = ConnectFrom([main EXCEPT !.trace = @ \o <<Logged("connect", main.server)>>],
                           main.server + 1)
    /\ UNCHANGED <<conversations, agentMessages, handlers, sent, arrived, writers,
                   mcp_servers>>

\* An update fetched before the handlers are added: the application has no
\* handler for it.
Drop(u) ==
    /\ ~main.registered
    /\ Within(u.message_id, irregular + UpdateCost(u, FALSE) + 1)
    /\ arrived' = u.message_id
    /\ irregular' = irregular + UpdateCost(u, FALSE) + 1
    /\ handlers' = [handlers EXCEPT ![u.message_id] =
            [Idle EXCEPT !.pc = "done", !.update = u, !.trace = <<"no_handler">>]]
    /\ UNCHANGED <<conversations, agentMessages, sent, writers, main, mcp_servers>>

\* The sleep loop of main is interrupted: finally.
Interrupt ==
    /\ main.pc = "serving"
    /\ InFlight = {}
    /\ arrived <= StopRun
    /\ main' = Finally(main)
    /\ UNCHANGED <<conversations, agentMessages, handlers, sent, arrived, writers,
                   irregular, mcp_servers>>

\* A step of TelegramMCPBot.cleanup returns: the next one is called; after the
\* last one cleanup returns and main calls OpenAIAgent.cleanup.
ShutdownReturns ==
    /\ main.pc \in ShutdownSteps
    /\ main' = CASE main.pc = "updater.stop" ->
                        Calls([main EXCEPT !.polling = FALSE], "application.stop")
                 [] main.pc = "application.stop" -> Calls(main, "application.shutdown")
                 [] main.pc = "application.shutdown" -> AgentCleanup(main)
    /\ UNCHANGED <<conversations, agentMessages, handlers, sent, arrived, writers,
                   irregular, mcp_servers>>

\* A step of TelegramMCPBot.cleanup raises: its except clause, around all
\* three steps, logs the exception; cleanup returns.
ShutdownRaises ==
    /\ main.pc \in ShutdownSteps
    /\ Within(arrived, irregular + 1)
    /\ irregular' = irregular + 1
    /\ main' = AgentCleanup([main EXCEPT !.trace = @ \o <<Logged(main.pc, 0)>>])
    /\ UNCHANGED <<conversations, agentMessages, handlers, sent, arrived, writers,
                   mcp_servers>>

CleanupReturns ==
    /\ main.pc = "cleanup"
    /\ mcp_servers' = [mcp_servers EXCEPT ![main.server].released = TRUE]
    /\ main' = CleanupFrom(main, main.server + 1)
    /\ UNCHANGED <<conversations, agentMessages, handlers, sent, arrived, writers,
                   irregular>>

\* The exception leaves cleanup, and main with it.
CleanupRaisesAborts ==
    /\ main.pc = "cleanup"
    /\ Within(arrived, irregular + 1)
    /\ irregular' = irregular + 1
    /\ main' = [main EXCEPT !.pc = "exited", !.server = 0,
                            !.trace = @ \o <<Logged("agent.cleanup", 0)>>]
    /\ UNCHANGED <<conversations, agentMessages, handlers, sent, arrived, writers,
                   mcp_servers>>

\* except Exception as e: logging.error(...) inside the loop of cleanup
CleanupRaises ==
    /\ main.pc = "cleanup"
    /\ Within(arrived, irregular + 1)
    /\ irregular' = irregular + 1
    /\ main' = CleanupFrom([main EXCEPT !.trace = @ \o <<Logged("cleanup", main.server)>>],
                           main.server + 1)
    /\ UNCHANGED <<conversations, agentMessages, handlers, sent, arrived, writers,
                   mcp_servers>>

\* The handlers suspended at the await pc.
Awaiting(pc) == { e \in 1..arrived : handlers[e].pc = pc }

Next ==
    \/ RunBot
    \/ StartupReturns
    \/ StartupRaises
    \/ ConnectReturns
    \/ ConnectRaises
    \/ Interrupt
    \/ ShutdownReturns
    \/ ShutdownRaises
    \/ CleanupReturns
    \/ CleanupRaises
    \/ \E u \in Receivable : Drop(u)
    \/ \E u \in Receivable : Ignore(u)
    \/ \E u \in Receivable : Reject(u)
    \/ \E u \in Receivable : Accept(u)
    \/ \E e \in Awaiting("run") :
            \E res \in RunResults(e) : RunReturns(e, res)
    \/ \E e \in Awaiting("run") : RunRaises(e)
    \/ \E e \in Awaiting("send") : SendReturns(e)
    \/ \E e \in Awaiting("send") : SendRaises(e)
    \/ \E e \in Awaiting("apology") : ApologyReturns(e)
    \/ \E e \in Awaiting("apology") : ApologyRaises(e)

Spec == Init /\ [][Next]_vars

\* ------------------------------------------------------------- properties
History(c) == IF c \in DOMAIN conversations THEN conversations[c].messages ELSE <<>>

Has(e, label) == \E i \in DOMAIN handlers[e].trace : handlers[e].trace[i] = label

Accepted == { e \in 1..arrived : Has(e, "agent.run") }

\* The stored turns that handler e appended, as positions in its chat's history.
WrittenBy(e) ==
    LET c == handlers[e].update.chat_id
    IN IF c \in DOMAIN writers THEN { i \in DOMAIN writers[c] : writers[c][i] = e } ELSE {}

\* The transport calls that handler e made, as positions in the call log.
SentBy(e) == { i \in DOMAIN sent : sent[i].by = e }

Min(a, b) == IF a <= b THEN a ELSE b

\* C1: the payload handed to the agent is the last min(5, n) turns of the
\* chat's stored history, n being the history length right after the user turn
\* of this update was appended: in stored order, ending with that user turn,
\* and the store still holds everything it held before.
C1_PayloadIsRecentWindow ==
    \A e \in Accepted :
        LET h == handlers[e]
            cur == History(h.update.chat_id)
            n == Len(h.hist0) + 1
            k == Len(h.messages)
        IN /\ k = Min(5, n)
           /\ n <= Len(cur)
           /\ SubSeq(cur, 1, n - 1) = h.hist0
           /\ cur[n] = [role |-> "user", content |-> h.update.text]
           /\ \A i \in 1..k : h.messages[i] = cur[n - k + i]
           /\ h.messages[k] = [role |-> "user", content |-> h.update.text]

\* Six messages of one chat were answered and delivered, and the payload of
\* the seventh holds the 5 most recent of the 13 stored turns.
C1_Witness ==
    \E e \in Accepted :
        /\ handlers[e].pc = "run"
        /\ Len(handlers[e].hist0) = 12
        /\ Len(handlers[e].messages) = 5
        /\ handlers[e].messages[1] = handlers[e].hist0[9]
        /\ \A d \in 1..(e - 1) : Has(d, "reply_delivered")

\* C2: once the agent call of a handler has raised, no step of that handler
\* writes to the conversation store: neither the step in which the failure is
\* caught nor any later one.
C2_FailedRunWritesNothing ==
    [][ \A e \in 1..arrived :
            ( /\ handlers'[e] # handlers[e]
              /\ \/ handlers[e].pc = "run" /\ handlers'[e].pc = "apology"
                 \/ Has(e, "run_raised") )
            => conversations' = conversations ]_vars

\* The agent call of a handler has raised and the handler has not finished
\* yet, while another handler has appended to the same chat since the failed
\* handler stored its user turn.
C2_Witness ==
    \E e \in Accepted :
        /\ handlers[e].pc = "apology"
        /\ Has(e, "run_raised")
        /\ Len(History(handlers[e].update.chat_id)) > Len(handlers[e].hist0) + 1

\* C3 as claimed: once the handler of an update whose agent call failed has
\* finished, the chat's history equals the history before the update arrived.
C3_HistoryAsBeforeArrival ==
    \A e \in Accepted :
        (handlers[e].pc = "done" /\ Has(e, "run_raised"))
            => History(handlers[e].update.chat_id) = handlers[e].hist0

\* C3 amended: once that handler has finished, the chat's history is the
\* history before the update arrived followed by the update's user turn (and
\* by what other handlers appended since); the failed update contributed that
\* one turn and no other, and the turn is part of later payloads of the chat
\* as long as the window reaches it.
C3_FailedEventKeepsUserTurn ==
    \A e \in Accepted :
        (handlers[e].pc = "done" /\ Has(e, "run_raised")) =>
            LET h == handlers[e]
                cur == History(h.update.chat_id)
                n == Len(h.hist0) + 1
                turn == [role |-> "user", content |-> h.update.text]
            IN /\ n <= Len(cur)
               /\ SubSeq(cur, 1, n) = Append(h.hist0, turn)
               /\ WrittenBy(e) = {n}
               /\ \A f \in Accepted :
                    LET m == Len(handlers[f].hist0) + 1
                        k == Len(handlers[f].messages)
                    IN ( /\ handlers[f].update.chat_id = h.update.chat_id
                         /\ m > n
                         /\ m - n < 5 )
                       => handlers[f].messages[k - (m - n)] = turn

\* A failed update is followed by a later update of the same chat whose
\* payload is being processed.
C3_Witness ==
    \E e \in Accepted : \E f \in Accepted :
        /\ handlers[e].pc = "done"
        /\ Has(e, "run_raised")
        /\ f > e
        /\ handlers[f].update.chat_id = handlers[e].update.chat_id
        /\ Len(handlers[f].hist0) = Len(handlers[e].hist0) + 1

\* C4: a handler whose agent call raised with error text m makes exactly one
\* transport call: plain text, the apology followed by m, to the chat of the
\* triggering message; it has no agent reply to send.
C4_FailedRunSendsOneApology ==
    \A e \in Accepted :
        Has(e, "run_raised") =>
            /\ Cardinality(SentBy(e)) = 1
            /\ handlers[e].agent_resp = PyNone
            /\ \A i \in SentBy(e) :
                /\ sent[i].parse_mode = "none"
                /\ SubSeq(sent[i].text, 1, Len(ApologyPrefix)) = ApologyPrefix
                /\ Contains(sent[i].text, handlers[e].error)
                /\ handlers[e].error = RunError
                /\ sent[i].chat_id = handlers[e].update.chat_id

\* The agent call raised and the apology was delivered.
C4_Witness ==
    \E e \in Accepted :
        /\ Has(e, "run_raised")
        /\ handlers[e].pc = "done"
        /\ \E i \in SentBy(e) : sent[i].status = "delivered"

\* C5 as claimed: an update without text, without message or without chat is
\* a no-op: its handler stores no turn, never calls the agent and makes no
\* transport call.
C5_NoTextOrNoChatIsNoOp ==
    \A e \in 1..arrived :
        LET u == handlers[e].update
        IN (u.text = PyNone \/ ~u.message \/ ~u.effective_chat) =>
            /\ WrittenBy(e) = {}
            /\ ~Has(e, "agent.run")
            /\ handlers[e].input = <<>>
            /\ SentBy(e) = {}

\* C6: a handler whose agent call returned r went through: append user turn,
\* call run, append assistant turn r, send r.  It stored exactly these two
\* turns, the user turn first; when nothing was appended between them, the
\* history up to the assistant turn is the history before the update followed
\* by [user(text), assistant(r)].  Exactly one transport call of the handler
\* carries r, and it is addressed to the originating chat and message.
C6_SuccessfulExchange ==
    \A e \in Accepted :
        Has(e, "run_returned") =>
            LET h == handlers[e]
                cur == History(h.update.chat_id)
                p == Len(h.hist0) + 1
                r == h.agent_resp
                user == [role |-> "user", content |-> h.update.text]
                assistant == [role |-> "assistant", content |-> r]
                carrying == { i \in SentBy(e) : Contains(sent[i].text, r.val) }
            IN /\ IsPrefix(<<"append_user", "recent", "agent.run", "run_returned",
                               "append_assistant", "send_reply">>, h.trace)
               /\ r.type = "str"
               /\ Cardinality(WrittenBy(e)) = 2
               /\ p \in WrittenBy(e)
               /\ cur[p] = user
               /\ \A q \in WrittenBy(e) \ {p} : q > p /\ cur[q] = assistant
               /\ (p + 1) \in WrittenBy(e)
                    => SubSeq(cur, 1, p + 1) = h.hist0 \o <<user, assistant>>
               /\ Cardinality(carrying) = 1
               /\ \A i \in carrying :
                    /\ sent[i].chat_id = h.update.chat_id
                    /\ sent[i].reply_to = h.update.message_id

\* A second update of a chat was answered without interleaving and its reply
\* was delivered.
C6_Witness ==
    \E e \in Accepted :
        /\ handlers[e].pc = "done"
        /\ Has(e, "reply_delivered")
        /\ Len(handlers[e].hist0) = 2
        /\ History(handlers[e].update.chat_id)
             = handlers[e].hist0 \o
                 << [role |-> "user", content |-> handlers[e].update.text],
                    [role |-> "assistant", content |-> handlers[e].agent_resp] >>

\* C7: a successful reply r is sent unchanged as plain text if and only if
\* len(r) < 200, and otherwise inside the expandable blockquote with HTML
\* parse mode; exactly one of the two forms is sent.
C7_ReplyFormatByLength ==
    \A e \in Accepted :
        Has(e, "run_returned") =>
            LET r == handlers[e].agent_resp.val
                plain == { i \in SentBy(e) :
                             sent[i].text = r /\ sent[i].parse_mode = "none" }
                quoted == { i \in SentBy(e) :
                              /\ sent[i].text = BlockquoteOpen \o r \o BlockquoteClose
                              /\ sent[i].parse_mode = "HTML" }
            IN /\ Cardinality(plain \cup quoted) = 1
               /\ Cardinality(plain) = 1 <=> Len(r) < 200
               /\ Cardinality(quoted) = 1 <=> Len(r) >= 200

\* A reply of 199 characters went out plain and one of 200 characters went
\* out in the blockquote.
C7_Witness ==
    \E e \in Accepted : \E f \in Accepted :
        /\ Len(handlers[e].agent_resp.val) = 199
        /\ \E i \in SentBy(e) : sent[i].parse_mode = "none" /\ Len(sent[i].text) = 199
        /\ Len(handlers[f].agent_resp.val) = 200
        /\ \E i \in SentBy(f) : sent[i].parse_mode = "HTML" /\ Len(sent[i].text) = 236

\* C8 as claimed: the input handed to Runner.run is exactly the payload that
\* was passed to OpenAIAgent.run.
C8_RunnerInputIsPayload ==
    \A e \in Accepted : handlers[e].input = handlers[e].messages

WellFormed(t) == t.role \in {"user", "assistant"} /\ t.content.type = "str"

\* C9 as claimed: every turn in the store and every item submitted to the
\* agent runtime has role user or assistant and a string as content.
C9_TurnsWellFormed ==
    /\ \A c \in DOMAIN conversations :
          \A i \in DOMAIN conversations[c].messages :
              WellFormed(conversations[c].messages[i])
    /\ \A e \in Accepted :
          \A i \in DOMAIN handlers[e].input : WellFormed(handlers[e].input[i])

\* C10: every step leaves each chat's stored history as a prefix of its new
\* history, and no conversation disappears.
C10_AppendOnly ==
    [][ \A c \in DOMAIN conversations :
            /\ c \in DOMAIN conversations'
            /\ IsPrefix(conversations[c].messages, conversations'[c].messages) ]_vars

\* A history has grown beyond twice the submission window, past a failed and
\* a rejected update.
C10_Witness ==
    \E c \in DOMAIN conversations :
        /\ Len(conversations[c].messages) > 10
        /\ \E e \in 1..arrived : Has(e, "run_raised") \/ Has(e, "rejected")

\* --------------------------------------------------- the life of the process
\* How many times main has made the call op on server s.
Attempts(op, s) ==
    Cardinality({ i \in DOMAIN main.trace : main.trace[i] = Call(op, s) })

Called(op) == Attempts(op, 0) > 0

WasLogged(op, s) == \E i \in DOMAIN main.trace : main.trace[i] = Logged(op, s)

\* C11: OpenAIAgent.connect attempts connect on every configured server
\* exactly once: a server's connect is never attempted twice, and once the
\* connect phase is over every server has been attempted, whether or not a
\* connect raised.  A raised connect is logged and does not leave connect:
\* the handlers are registered afterwards, and while the bot serves with no
\* handler suspended (and the bounds admit one more regular update) an update
\* can be accepted and passed to the agent.
C11_ConnectAttemptsEveryServer ==
    /\ \A s \in Servers : Attempts("connect", s) <= 1
    /\ \A s \in Servers :
            WasLogged("connect", s) => Attempts("connect", s) = 1 /\ ~mcp_servers[s].connected
    /\ (Called("agent.connect") /\ main.pc # "connect") =>
            /\ \A s \in Servers : Attempts("connect", s) = 1
            /\ ~WasLogged("agent.connect", 0)
            /\ Called("add_handler")
            /\ main.registered
    /\ (main.pc = "serving" /\ InFlight = {} /\ Within(arrived + 1, irregular)) =>
            ENABLED (\E u \in Receivable : Accept(u))

\* The connect of a server raised, a later server was connected, and an
\* update was accepted and passed to the agent afterwards.
C11_Witness ==
    \E s, t \in Servers :
        /\ s < t
        /\ WasLogged("connect", s)
        /\ mcp_servers[t].connected
        /\ \E e \in 1..arrived : Has(e, "agent.run")

\* C12: OpenAIAgent.cleanup attempts cleanup on every configured server
\* exactly once, whether or not the server's connect succeeded and whether or
\* not another server's cleanup raised, and no exception leaves it: a
\* server's cleanup is never attempted twice, and when main has returned
\* every server, connected or not, has had its one attempt.
C12_CleanupAttemptsEveryServer ==
    /\ \A s \in Servers : Attempts("cleanup", s) <= 1
    /\ \A s \in Servers :
            WasLogged("cleanup", s) => Attempts("cleanup", s) = 1 /\ ~mcp_servers[s].released
    /\ ~WasLogged("agent.cleanup", 0)
    /\ main.pc = "exited" =>
            /\ Attempts("agent.cleanup", 0) = 1
            /\ \A s \in Servers : Attempts("cleanup", s) = 1

\* main has returned; the connect of a server had raised, the cleanup of a
\* server raised and a later server was released.
C12_Witness ==
    /\ main.pc = "exited"
    /\ \E u \in Servers : WasLogged("connect", u) /\ Attempts("cleanup", u) = 1
    /\ \E s, t \in Servers :
            s < t /\ WasLogged("cleanup", s) /\ mcp_servers[t].released

\* The calls of the shutdown made so far, in order.
IsShutdownCall(x) ==
    x.kind = "call" /\ x.op \in ShutdownSteps \cup {"agent.cleanup"}

ShutdownCalls == SelectSeq(main.trace, IsShutdownCall)

ShutdownOrder ==
    << Call("updater.stop", 0), Call("application.stop", 0),
       Call("application.shutdown", 0), Call("agent.cleanup", 0) >>

\* C13: shutdown stops the updater, stops the application, shuts the
\* application down and cleans the agent up, in this order, and attempts each
\* of these steps even if an earlier one failed: the shutdown calls made are
\* always a prefix of this order, and when main has returned they are all four.
C13_ShutdownStepsAllAttempted ==
    /\ IsPrefix(ShutdownCalls, ShutdownOrder)
    /\ main.pc = "exited" => ShutdownCalls = ShutdownOrder

\* The calls of the startup made so far, in order.
IsStartupCall(x) ==
    x.kind = "call" /\ x.op \in StartupSteps \cup {"agent.connect", "add_handler"}

StartupCalls == SelectSeq(main.trace, IsStartupCall)

StartupOrder ==
    << Call("initialize", 0), Call("start", 0), Call("start_polling", 0),
       Call("agent.connect", 0), Call("add_handler", 0) >>

ConnectPhaseOver ==
    /\ Called("agent.connect")
    /\ main.pc # "connect"
    /\ \A s \in Servers : Attempts("connect", s) = 1

\* The handlers of the updates that entered _procress_message.
Entered == { e \in 1..arrived : Has(e, "rejected") \/ Has(e, "append_user") }

\* C14: startup initializes the transport client, starts the application,
\* starts polling, connects the tool servers and registers the handlers, in
\* this order, each step called when the one before has returned (while main
\* waits for a step, that step is the last one called; the handlers are
\* registered only when the connect phase is over); and no update enters
\* _procress_message before the connect phase is over.
C14_StartupOrder ==
    /\ IsPrefix(StartupCalls, StartupOrder)
    /\ main.pc \in StartupSteps => StartupCalls[Len(StartupCalls)] = Call(main.pc, 0)
    /\ main.pc = "connect" => StartupCalls[Len(StartupCalls)] = Call("agent.connect", 0)
    /\ main.registered => ConnectPhaseOver /\ Called("add_handler")
    /\ Entered # {} => ConnectPhaseOver

\* An update arrived while the tool servers were being connected and found
\* no handler; a later one was accepted.
C14_Witness ==
    \E e, f \in 1..arrived :
        e < f /\ Has(e, "no_handler") /\ Has(f, "agent.run")

\* ------------------------------------------------------------ interleaving
\* Where handler e stored its user turn and its assistant turn in the
\* history of its chat.
UserAt(e) == CHOOSE p \in WrittenBy(e) : \A q \in WrittenBy(e) : p <= q
AssistantAt(e) == CHOOSE p \in WrittenBy(e) : \A q \in WrittenBy(e) : q <= p

SameChat(e, f) == handlers[e].update.chat_id = handlers[f].update.chat_id

InPayload(f, turn) ==
    \E i \in DOMAIN handlers[f].messages : handlers[f].messages[i] = turn

\* C16: the user turns of one chat are stored in the order in which their
\* handlers start, and nothing comes between a handler's append and its read
\* of the window: the payload of every accepted update ends with its own user
\* turn, and of two accepted updates of one chat the earlier one's user turn
\* is stored before the later one's, and is in the later one's payload when
\* the window reaches it.
C16_UserTurnsInStartOrder ==
    /\ \A f \in Accepted :
            LET h == handlers[f]
            IN /\ h.messages # <<>>
               /\ h.messages[Len(h.messages)] = UserTurn(h.update)
               /\ History(h.update.chat_id)[UserAt(f)] = UserTurn(h.update)
    /\ \A e, f \in Accepted :
            (e < f /\ SameChat(e, f)) =>
                /\ UserAt(e) < UserAt(f)
                /\ UserAt(f) - UserAt(e) < HistoryWindow
                        => InPayload(f, UserTurn(handlers[e].update))

\* Two updates of one chat were in flight together: the second one's user
\* turn is stored before the first one's assistant turn, the second payload
\* lacks the first reply, and the second reply, which came first, is stored
\* before the first one's.
C16_Witness ==
    \E e, f \in Accepted :
        /\ e < f
        /\ SameChat(e, f)
        /\ Has(e, "append_assistant")
        /\ Has(f, "append_assistant")
        /\ UserAt(f) < AssistantAt(f)
        /\ AssistantAt(f) < AssistantAt(e)
        /\ ~InPayload(f, AssistantTurn(handlers[e].agent_resp))

\* C15: no failure while an update is processed escapes _procress_message:
\* no handler ends with an exception that left it.
C15_NothingEscapes ==
    \A e \in 1..arrived : ~Has(e, "escaped")

\* While a handler waits for its agent call, nobody else waits for it: every
\* other suspended handler can take its next step, and a new update can be
\* accepted (when a handler slot is free and the bounds admit an overlapping
\* update).
OthersCanProceed ==
    Awaiting("run") # {} =>
        /\ \A f \in Awaiting("send") : ENABLED SendReturns(f)
        /\ \A f \in Awaiting("apology") : ENABLED ApologyReturns(f)
        /\ \A f \in Awaiting("run") :
                ENABLED (\E res \in RunResults(f) : RunReturns(f, res))
        /\ (Cardinality(InFlight) < MaxInFlight /\ Within(arrived + 1, irregular + 1))
                => ENABLED (\E u \in Receivable : Accept(u))

\* A handler leaves its agent call only with an outcome of that call.
OnlyItsOutcomeEndsTheCall ==
    \A e \in Events :
        (handlers[e].pc = "run" /\ handlers'[e] # handlers[e]) =>
            \/ \E res \in RunResults(e) : RunReturns(e, res)
            \/ RunRaises(e)

EventOf(text) == CHOOSE e \in Events : Digits[e] = text[2]

TurnChats(t) ==
    IF t.content.type = "str" /\ Len(t.content.val) >= 2
    THEN {handlers[EventOf(t.content.val)].update.chat_id}
    ELSE {}

ItemChats(item) ==
    IF item.content.type = "list"
    THEN UNION { TurnChats(item.content.val[j]) : j \in DOMAIN item.content.val }
    ELSE TurnChats(item)

\* C18: the input the agent runtime receives for an update of a chat is
\* made of that chat's own messages and replies only: no item of it carries
\* a text or a reply of another chat.
C18_RuntimeInputIsOwnChat ==
    \A e \in Accepted :
        \A i \in DOMAIN handlers[e].input :
            ItemChats(handlers[e].input[i]) \subseteq {handlers[e].update.chat_id}

\* The calls of handler e that carry the call made, whatever their status.
CallsLike(e, call) ==
    { j \in SentBy(e) : [sent[j] EXCEPT !.status = "pending"] = call }

\* C19 as stated: every stored assistant turn is a reply that was delivered;
\* when the send of a reply raised, the history holds no assistant turn for it.
C19_StoredAssistantWasDelivered ==
    \A e \in Accepted :
        Has(e, "reply_raised") =>
            ~\E i \in WrittenBy(e) :
                History(handlers[e].update.chat_id)[i].role = "assistant"

\* C19, amended: every stored assistant turn is the reply the agent returned
\* for an update of that chat, and the handler of that update made exactly
\* one send call carrying it, to that chat; the call is marked delivered or
\* failed as the transport returned or raised.  The turn is stored before
\* the send and stays: when the send raised, the history still holds the
\* assistant turn, and the handler sent the apology instead.
C19_StoredAssistantWasSent ==
    /\ \A c \in DOMAIN conversations :
        \A i \in DOMAIN History(c) :
            History(c)[i].role = "assistant" =>
                LET e == writers[c][i]
                    h == handlers[e]
                    replies == CallsLike(e, ReplyCall(h.update, h.agent_resp))
                IN /\ Has(e, "run_returned")
                   /\ h.update.chat_id = c
                   /\ History(c)[i] = AssistantTurn(h.agent_resp)
                   /\ Cardinality(replies) = 1
                   /\ \A j \in replies :
                        /\ sent[j].status = "delivered" <=> Has(e, "reply_delivered")
                        /\ sent[j].status = "failed" <=> Has(e, "reply_raised")
    /\ \A e \in Accepted :
        Has(e, "reply_raised") =>
            LET h == handlers[e]
            IN /\ \E i \in WrittenBy(e) :
                    History(h.update.chat_id)[i] = AssistantTurn(h.agent_resp)
               /\ CallsLike(e, ApologyCall(h.update, SendError)) # {}

\* The send of a reply raised, the apology was delivered, and the reply is
\* stored as the last turn of the chat's history.
C19_Witness ==
    \E e \in Accepted :
        LET h == handlers[e]
            cur == History(h.update.chat_id)
        IN /\ h.pc = "done"
           /\ Has(e, "reply_raised")
           /\ Has(e, "apology_delivered")
           /\ cur[Len(cur)] = AssistantTurn(h.agent_resp)

\* C20: the rolling buffer of the agent wrapper holds at most 5 items
\* whenever no run call is in flight, and every list submitted to the
\* runtime has at most 6 items.
C20_BufferBounded ==
    /\ Awaiting("run") = {} => Len(agentMessages) <= AgentWindow
    /\ \A e \in Accepted : Len(handlers[e].input) <= AgentWindow + 1

\* ------------------------------------------------------- shape of a history
\* How many of the first n turns of history h have the role.
CountRole(h, n, role) == Cardinality({ i \in 1..n : h[i].role = role })

\* C21: in every chat's stored history every prefix has at most as many
\* assistant turns as user turns; a non-empty history starts with a user
\* turn; and every assistant turn is matched to a distinct earlier user turn:
\* the one stored by the same handler, which stored no other assistant turn.
C21_AssistantsNeverOutnumberUsers ==
    \A c \in DOMAIN conversations :
        LET h == History(c)
        IN /\ \A n \in 0..Len(h) :
                CountRole(h, n, "assistant") <= CountRole(h, n, "user")
           /\ h # <<>> => h[1].role = "user"
           /\ \A i \in DOMAIN h :
                h[i].role = "assistant" =>
                    /\ \E j \in 1..(i - 1) :
                            h[j].role = "user" /\ writers[c][j] = writers[c][i]
                    /\ \A k \in DOMAIN h :
                            (h[k].role = "assistant" /\ writers[c][k] = writers[c][i])
                                => k = i

\* Two handlers of one chat interleaved: the history holds two user turns and
\* then the two replies, the later update's first.
C21_Witness ==
    \E c \in DOMAIN conversations :
        LET h == History(c)
        IN /\ Len(h) = 4
           /\ h[1].role = "user" /\ h[2].role = "user"
           /\ h[3].role = "assistant" /\ h[4].role = "assistant"
           /\ writers[c][3] = writers[c][2]
           /\ writers[c][4] = writers[c][1]

====
